---- MODULE Spec2Model ----
(***************************************************************************)
(* Model of stakechat_bot.engine: the pending-confirmation store           *)
(* (_PendingStore) and the Engine's asynchronous command handling          *)
(* (handle_text_async and the coroutines it awaits).                       *)
(*                                                                         *)
(* Every request is one asyncio task.  A task runs without interruption    *)
(* from one await on the external client (get_balance, get_exchange_rate,  *)
(* add_stake) to the next; each such segment is one action.  Awaiting a    *)
(* coroutine of the Engine itself (_get_wallet, _stake, ...) does not      *)
(* yield to the event loop.                                                *)
(*                                                                         *)
(* Time and amounts are integers.  Python strings built by f-strings are   *)
(* sequences of their ':'-separated fields, each field the string that     *)
(* str() produces; float() and int() parse them back or raise.             *)
(***************************************************************************)
EXTENDS Integers, Sequences, FiniteSets, TLC

\* ------------------------------------------------------------------------
\* Bounds
\* ------------------------------------------------------------------------
NReq == 2            \* tasks running handle_text_async at the same time
MaxTasks == 4        \* tasks started in one run
TickStep == 15       \* seconds the clock advances per Tick in the engine
MaxTime == 30        \* the clock stops advancing here
MaxStoreTime == 3    \* the clock stops here when the store is driven alone
MaxTtl == 2          \* largest ttl handed to save when driven alone
MaxSaves == 2        \* _PendingOp objects constructed in one run
MaxLoads == 2        \* invocations of load_wallet in one run
MaxNum == 20         \* largest number float()/int() are asked to parse
InitialTao == 20     \* free balance of the wallet on the chain at start
MaxText == 3         \* characters of a text whose routing is followed
MaxSoloTasks == 2    \* tasks started in a run of one task at a time

\* ------------------------------------------------------------------------
\* Program constants
\* ------------------------------------------------------------------------
StakeTtl == 30       \* _confirm_stake: save(..., 30)
UnstakeAllTtl == 30  \* _handle_stake_action: save(unstake_all_confirm, 30)
UnstakeTtl == 30     \* _handle_stake_action: save(unstake_confirm, 30)

\* ------------------------------------------------------------------------
\* Values
\* ------------------------------------------------------------------------
\* Python values that may be a number, the token "all", or None.
Num(n) == [tag |-> "num", v |-> n]
AllTok == [tag |-> "all", v |-> 0]
NoneVal == [tag |-> "none", v |-> 0]

\* Optional[str] results: None (and the empty string) is the empty sequence.
NoAction == <<>>

\* Platform names and user identifiers are strings: sequences of
\* characters, a run of characters that is never split written as one
\* element.
Platforms == {<<"tg">>}
UserIds == {<<"u1">>, <<"u2">>}

\* f"{platform}:{user_id}"
UserKeyOfUserOnly(platform, user_id) == user_id
UserKeyOf(platform, user_id) == platform \o <<":">> \o user_id

Keys == {UserKeyOf(p, u) : p \in Platforms, u \in UserIds}

\* The platform allow-list of the configuration: u2 is not on it.
AllowedUsers == {<<"u1">>}

Reqs == 1..NReq

\* ------------------------------------------------------------------------
\* _PendingStore
\* ------------------------------------------------------------------------
\* The dict is the set of its items; each _PendingOp carries the identity
\* (id) of the object that save constructed.
NoOp == [key |-> <<>>, action |-> NoAction, expires_at |-> 0, id |-> 0]

\* expires_at=time.time() + ttl
ExpiresAtNoTtl(t, ttl) == t
ExpiresAt(t, ttl) == t + ttl

\* self._store[user_key] = _PendingOp(...)
StorePutKeepOld(s, k, action, expires, id) ==
    s \cup {[key |-> k, action |-> action, expires_at |-> expires, id |-> id]}
StorePutReset(s, k, action, expires, id) ==
    {[key |-> k, action |-> action, expires_at |-> expires, id |-> id]}
StorePut(s, k, action, expires, id) ==
    {e \in s : e.key # k}
        \cup {[key |-> k, action |-> action, expires_at |-> expires, id |-> id]}

\* self._store.pop(user_key, None): the value removed ...
StoreGet(s, k) ==
    IF \E e \in s : e.key = k THEN CHOOSE e \in s : e.key = k ELSE NoOp

\* ... and the dict without the key.
StoreRemoveNothing(s, k) == s
StoreRemove(s, k) == {e \in s : e.key # k}

\* if op and time.time() < op.expires_at: return op.action; return None
PopResultInclusive(op, t) ==
    IF op # NoOp /\ t <= op.expires_at THEN op.action ELSE NoAction
PopResult(op, t) ==
    IF op # NoOp /\ t < op.expires_at THEN op.action ELSE NoAction

\* ------------------------------------------------------------------------
\* State
\* ------------------------------------------------------------------------
VARIABLES
    now,          \* time.time()
    store,        \* Engine._pending._store
    nextId,       \* identity of the next _PendingOp constructed
    wallet,       \* Engine._wallet
    freeTao,      \* free balance of the wallet on the chain
    history,      \* the records of HISTORY_FILE, in order
    req,          \* the tasks running handle_text_async
    out,          \* the BotResponse the last step returned, if it did
    saved,        \* per key, the last save not popped since (observation)
    lastOp,       \* the last operation when the store is driven alone: its
                  \* time, its result, the save it found (observation)
    returned,     \* per _PendingOp identity, the pops that returned it
    addCalls,     \* per _PendingOp identity, the add_stake invocations
    loads,        \* invocations of BittensorClient.load_wallet
    okStakes,     \* add_stake invocations completed with ok
    removeStakes, \* invocations of the client's remove-stake operation
    started,      \* tasks started so far
    cfgNetuid,    \* cfg.defaults.netuid
    text,         \* the text handed to handle_text_async, as it is typed
    routed        \* where handle_text_async sent that text

vars == <<now, store, nextId, wallet, freeTao, history, req, out, saved,
          lastOp, returned, addCalls, loads, okStakes, removeStakes, started,
          cfgNetuid, text, routed>>

storeVars == <<store, nextId, saved, returned>>

engineVars == <<wallet, freeTao, history, req, out, addCalls, loads, okStakes,
                removeStakes, started>>

\* What the engine's and the store's operations leave alone: the
\* configuration, and the text whose routing is followed on its own.
envVars == <<cfgNetuid, text, routed>>

Ids == 1..MaxSaves

\* The staking intent whose handler saved an action: what parse_message
\* returned (observation).
NoIntent == [op |-> "none", amount |-> NoneVal, netuid |-> NoneVal]
Intent(op, amount, netuid) == [op |-> op, amount |-> amount, netuid |-> netuid]

NoSave == [at |-> 0, ttl |-> 0, action |-> NoAction, id |-> 0,
           intent |-> NoIntent]
NoLastOp == [op |-> "none", key |-> <<>>, at |-> 0, result |-> NoAction,
             id |-> 0, prior |-> NoSave]

NoWallet == "None"

\* A task before handle_text_async is called on it.  pc is where the task
\* is suspended; amount, netuid and bal are the locals of the coroutine
\* and asked is action.netuid;
\* pending, pendId, classified and calls record what the task popped,
\* whether it called parse_message, and its add_stake invocations; newer
\* is, when the order of the intents is followed, the action of the stake
\* intent that the same user has issued last after the one this task
\* handles (and has not confirmed since).
IdleReq == [pc |-> "idle", platform |-> <<>>, user |-> <<>>, cmd |-> "",
            amount |-> NoneVal, netuid |-> NoneVal, asked |-> NoneVal,
            bal |-> 0,
            pending |-> NoAction, pendId |-> 0, classified |-> FALSE,
            calls |-> 0, newer |-> NoAction]

NoOut == [platform |-> <<>>, user |-> <<>>, cmd |-> "", resp |-> "",
          pending |-> NoAction, pendId |-> 0, classified |-> FALSE,
          calls |-> 0, report |-> {}]

\* Engine.__init__ and _PendingStore.__init__
Init ==
    /\ now = 0
    /\ store = {}
    /\ nextId = 1
    /\ wallet = NoWallet
    /\ freeTao = InitialTao
    /\ history = <<>>
    /\ req = [r \in Reqs |-> IdleReq]
    /\ out = NoOut
    /\ saved = [k \in Keys |-> NoSave]
    /\ lastOp = NoLastOp
    /\ returned = [i \in Ids |-> 0]
    /\ addCalls = [i \in Ids |-> 0]
    /\ loads = 0
    /\ okStakes = 0
    /\ removeStakes = 0
    /\ started = 0
    /\ cfgNetuid = Num(1)
    /\ text = <<>>
    /\ routed = "none"

\* ------------------------------------------------------------------------
\* _PendingStore.save and _PendingStore.pop as state changes
\* ------------------------------------------------------------------------
\* save(user_key, action, ttl), called for the intent `intent`
Save(k, action, ttl, intent) ==
    /\ nextId <= MaxSaves
    /\ store' = StorePut(store, k, action, ExpiresAt(now, ttl), nextId)
    /\ nextId' = nextId + 1
    /\ saved' = [saved EXCEPT ![k] =
                    [at |-> now, ttl |-> ttl, action |-> action, id |-> nextId,
                     intent |-> intent]]
    /\ UNCHANGED returned

\* pop(user_key); its return value is PopResult(StoreGet(store, k), now)
Pop(k) ==
    LET op == StoreGet(store, k)
        result == PopResult(op, now)
    IN  /\ store' = StoreRemove(store, k)
        /\ saved' = [saved EXCEPT ![k] = NoSave]
        /\ returned' = IF result # NoAction /\ op.id \in Ids
                       THEN [returned EXCEPT ![op.id] = @ + 1]
                       ELSE returned
        /\ UNCHANGED nextId

\* ------------------------------------------------------------------------
\* The store driven alone: any save, any pop, the clock
\* ------------------------------------------------------------------------
StoreActions == {<<"stake_confirm", "5", "3">>, <<"unstake_all_confirm", "3">>}
Ttls == (0 - 1)..MaxTtl

StoreSave(k, action, ttl) ==
    /\ Save(k, action, ttl, NoIntent)
    /\ lastOp' = [op |-> "save", key |-> k, at |-> now, result |-> NoAction,
                  id |-> nextId, prior |-> saved[k]]
    /\ UNCHANGED <<now, envVars, engineVars>>

StorePop(k) ==
    /\ Pop(k)
    /\ lastOp' = [op |-> "pop", key |-> k, at |-> now,
                  result |-> PopResult(StoreGet(store, k), now),
                  id |-> StoreGet(store, k).id, prior |-> saved[k]]
    /\ UNCHANGED <<now, envVars, engineVars>>

StoreTick ==
    /\ now < MaxStoreTime
    /\ now' = now + 1
    /\ UNCHANGED <<storeVars, lastOp, envVars, engineVars>>

NextStore ==
    \/ \E k \in Keys, a \in StoreActions, ttl \in Ttls : StoreSave(k, a, ttl)
    \/ \E k \in Keys : StorePop(k)
    \/ StoreTick

SpecStore == Init /\ [][NextStore]_vars

\* ------------------------------------------------------------------------
\* Strings and tokens
\* ------------------------------------------------------------------------
\* str(x) inside an f-string
Str(x) ==
    CASE x.tag = "num" -> ToString(x.v)
      [] x.tag = "all" -> "all"
      [] OTHER -> "None"

\* float(s) and int(s): the number written s, or NoneVal when they raise
\* ValueError.
ParseNum(s) ==
    IF \E n \in 0..MaxNum : ToString(n) = s
    THEN Num(CHOOSE n \in 0..MaxNum : ToString(n) = s)
    ELSE NoneVal
FloatOf(s) == ParseNum(s)
IntOf(s) == ParseNum(s)

\* f"stake_confirm:{amount}:{netuid}"
StakeToken(amount, netuid) == <<"stake_confirm", Str(amount), Str(netuid)>>
\* f"unstake_all_confirm:{netuid}"
UnstakeAllToken(netuid) == <<"unstake_all_confirm", Str(netuid)>>
\* f"unstake_confirm:{action.amount}:{netuid}"
UnstakeToken(amount, netuid) == <<"unstake_confirm", Str(amount), Str(netuid)>>

\* action.startswith("stake_confirm:")
IsStakeConfirm(action) == Len(action) >= 2 /\ action[1] = "stake_confirm"

\* ------------------------------------------------------------------------
\* Configuration and inputs
\* ------------------------------------------------------------------------
\* self._default_netuid()
DefaultNetuid == cfgNetuid

\* action.netuid or self._default_netuid()
NetuidOrDefault(netuid) ==
    IF netuid.tag = "none" \/ (netuid.tag = "num" /\ netuid.v = 0)
    THEN DefaultNetuid
    ELSE netuid

\* action.amount == 0 or str(action.amount).lower() == "all"
IsAllZeroOnly(amount) == amount.tag = "num" /\ amount.v = 0
IsAll(amount) ==
    (amount.tag = "num" /\ amount.v = 0) \/ amount.tag = "all"

\* What parse_message puts in a ParsedStake, for the concurrent runs.
AddAmounts == {Num(10), Num(15)}
RemoveAmounts == {Num(0), Num(5)}
Netuids == {Num(3)}

\* get_exchange_rate results (0: unavailable)
Rates == {0, 2}

\* Outcomes of BittensorClient.load_wallet
LoadOutcomes == {"ok", "raise"}

\* StakeResult values add_stake can report for a request of `amount` tao:
\* failure, success at the requested amount, success with slippage.
StakeResults(amount) ==
    {[ok |-> FALSE, tao_amount |-> 0, alpha_amount |-> 0, rate |-> 0],
     [ok |-> TRUE, tao_amount |-> amount, alpha_amount |-> amount \div 2,
      rate |-> 2],
     [ok |-> TRUE, tao_amount |-> amount - 1,
      alpha_amount |-> (amount - 1) \div 3, rate |-> 3]}

\* ------------------------------------------------------------------------
\* Engine helpers
\* ------------------------------------------------------------------------
\* A task is given the first free slot.
Arrives(r) ==
    /\ started < MaxTasks
    /\ started' = started + 1
    /\ req[r].pc = "idle"
    /\ \A q \in Reqs : q < r => req[q].pc # "idle"

\* The locals of a task when handle_text_async is called.
Called(p, u, cmd) == [IdleReq EXCEPT !.pc = "running", !.platform = p,
                                     !.user = u, !.cmd = cmd]

\* The quantities the text of _balance's response carries, by name.
BalanceReport(bal) == {<<"free_tao", bal>>}

\* What a returning task leaves in out: its response and what it did;
\* "raised" stands for an exception that leaves handle_text_async.
OutOf(rec, resp) ==
    [platform |-> rec.platform, user |-> rec.user, cmd |-> rec.cmd,
     resp |-> resp, pending |-> rec.pending, pendId |-> rec.pendId,
     classified |-> rec.classified, calls |-> rec.calls,
     report |-> IF resp = "portfolio" THEN BalanceReport(rec.bal) ELSE {}]

\* Task r, with locals rec, either returns resp or suspends at pc; rq is
\* what the other tasks become.
StepIn(rq, r, rec, pc, resp) ==
    IF pc = "done"
    THEN /\ req' = [rq EXCEPT ![r] = IdleReq]
         /\ out' = OutOf(rec, resp)
    ELSE /\ req' = [rq EXCEPT ![r] = [rec EXCEPT !.pc = pc]]
         /\ out' = NoOut
Step(r, rec, pc, resp) == StepIn(req, r, rec, pc, resp)

\* _get_wallet: the handle it returns (NoWallet: _load_wallet raised)
WalletAfter(w, outcome) ==
    IF w # NoWallet THEN w
    ELSE IF outcome = "ok" THEN "wallet" ELSE NoWallet

\* load_wallet is invoked only while self._wallet is None
LoadsAfterAlways(w, n) == n + 1
LoadsAfter(w, n) == IF w = NoWallet THEN n + 1 ELSE n

\* The part of a segment that calls _get_wallet.
GetWallet(outcome) ==
    /\ wallet # NoWallet => outcome = "ok"
    /\ wallet = NoWallet => loads < MaxLoads
    /\ wallet' = WalletAfter(wallet, outcome)
    /\ loads' = LoadsAfter(wallet, loads)

\* if bal.free_tao < amount
InsufficientNever(bal, amount) == FALSE
Insufficient(bal, amount) == bal < amount

\* if not result.ok: return ...; append_jsonl(HISTORY_FILE, {...})
HistoryAfterAlways(h, result, netuid) ==
    Append(h, [type |-> "stake", netuid |-> netuid,
               tao_spent |-> result.tao_amount,
               alpha_bought |-> result.alpha_amount, rate |-> result.rate])
HistoryAfterQuoted(h, result, netuid) ==
    IF ~result.ok THEN h
    ELSE Append(h, [type |-> "stake", netuid |-> netuid,
                    tao_spent |-> result.tao_amount,
                    alpha_bought |-> result.tao_amount \div 2, rate |-> 2])
HistoryAfter(h, result, netuid) ==
    IF ~result.ok THEN h
    ELSE Append(h, [type |-> "stake", netuid |-> netuid,
                    tao_spent |-> result.tao_amount,
                    alpha_bought |-> result.alpha_amount, rate |-> result.rate])

\* if not pending: return BotResponse("No pending action")
NothingPendingNever(pending) == FALSE
NothingPending(pending) == pending = NoAction

\* _dispatch_action after its _get_wallet, up to _stake's await of
\* get_balance: the pc the task reaches ("raised": ValueError of the
\* unpacking, float() or int())
DispatchPc(action) ==
    IF ~IsStakeConfirm(action) THEN "unknown_action"
    ELSE IF Len(action) # 3 THEN "raised"
    ELSE IF FloatOf(action[2]) = NoneVal \/ IntOf(action[3]) = NoneVal
         THEN "raised"
         ELSE "stake_get_balance"

\* ------------------------------------------------------------------------
\* handle_text_async: the first segment of a task, by what the text is
\* ------------------------------------------------------------------------
\* cmd in ("help", "start", "?"): return self._help()
HandleHelp(r, p, u) ==
    /\ Arrives(r)
    /\ Step(r, Called(p, u, "help"), "done", "help")
    /\ UNCHANGED <<now, storeVars, lastOp, envVars, wallet, freeTao, history, addCalls,
                   loads, okStakes, removeStakes>>

\* cmd in ("balance", "portfolio"): _balance up to its await of get_balance
HandleBalance(r, p, u) ==
    /\ Arrives(r)
    /\ \E o \in LoadOutcomes :
        /\ GetWallet(o)
        /\ IF wallet' = NoWallet
           THEN Step(r, Called(p, u, "balance"), "done", "raised")
           ELSE Step(r, Called(p, u, "balance"), "balance_get_balance", "")
    /\ UNCHANGED <<now, storeVars, lastOp, envVars, freeTao, history, addCalls,
                   okStakes, removeStakes>>

\* _balance after get_balance
BalanceReply(r) ==
    /\ req[r].pc = "balance_get_balance"
    /\ Step(r, [req[r] EXCEPT !.bal = freeTao], "done", "portfolio")
    /\ UNCHANGED <<now, storeVars, lastOp, envVars, wallet, freeTao, history, addCalls,
                   loads, okStakes, removeStakes,
                   started>>

\* cmd == "confirm": _handle_confirm, _dispatch_action, _stake up to its
\* await of get_balance; rq is what the other tasks become
ConfirmFrom(rq, r, p, u) ==
    LET k == UserKeyOf(p, u)
        op == StoreGet(store, k)
        pending == PopResult(op, now)
        rec == [Called(p, u, "confirm") EXCEPT
                    !.pending = pending,
                    !.pendId = IF pending = NoAction THEN 0 ELSE op.id]
    IN  /\ Arrives(r)
        /\ Pop(k)
        /\ IF NothingPending(pending)
           THEN /\ StepIn(rq, r, rec, "done", "no_pending")
                /\ UNCHANGED <<wallet, loads>>
           ELSE \E o \in LoadOutcomes :
                /\ GetWallet(o)
                /\ IF wallet' = NoWallet
                   THEN StepIn(rq, r, rec, "done", "raised")
                   ELSE IF DispatchPc(pending) = "stake_get_balance"
                   THEN StepIn(rq, r, [rec EXCEPT !.amount = FloatOf(pending[2]),
                                            !.netuid = IntOf(pending[3])],
                             "stake_get_balance", "")
                   ELSE StepIn(rq, r, rec, "done", DispatchPc(pending))
        /\ UNCHANGED <<now, lastOp, envVars, freeTao, history, addCalls, okStakes,
                       removeStakes>>

HandleConfirm(r, p, u) == ConfirmFrom(req, r, p, u)

\* ParsedStake, op == "add": _handle_stake_action and _confirm_stake up to
\* its await of get_balance; rq is what the other tasks become
StakeAddFrom(rq, r, p, u, amount, netuid) ==
    LET rec == [Called(p, u, "stake_add") EXCEPT
                    !.classified = TRUE, !.amount = amount,
                    !.netuid = NetuidOrDefault(netuid), !.asked = netuid]
    IN  /\ Arrives(r)
        /\ \E o \in LoadOutcomes :
            /\ GetWallet(o)
            /\ IF wallet' = NoWallet
               THEN Step(r, rec, "done", "raised")
               ELSE StepIn(rq, r, rec, "quote_get_balance", "")
        /\ UNCHANGED <<now, storeVars, lastOp, envVars, freeTao, history, addCalls,
                       okStakes, removeStakes>>

HandleStakeAdd(r, p, u, amount, netuid) ==
    StakeAddFrom(req, r, p, u, amount, netuid)

\* _confirm_stake: get_balance answers, get_exchange_rate is awaited
QuoteBalance(r) ==
    /\ req[r].pc = "quote_get_balance"
    /\ Step(r, [req[r] EXCEPT !.bal = freeTao], "quote_get_rate", "")
    /\ UNCHANGED <<now, storeVars, lastOp, envVars, wallet, freeTao, history, addCalls,
                   loads, okStakes, removeStakes,
                   started>>

\* _confirm_stake after get_exchange_rate: est_alpha, save, the response.
\* amount / rate raises TypeError and `{amount:.4f}` ValueError when amount
\* is the string "all".
QuoteRate(r, rate) ==
    /\ req[r].pc = "quote_get_rate"
    /\ IF rate > 0 /\ req[r].amount.tag # "num"
       THEN /\ Step(r, req[r], "done", "raised")
            /\ UNCHANGED storeVars
       ELSE /\ Save(UserKeyOf(req[r].platform, req[r].user),
                    StakeToken(req[r].amount, req[r].netuid), StakeTtl,
                    Intent("add", req[r].amount, req[r].asked))
            /\ IF req[r].amount.tag # "num"
               THEN Step(r, req[r], "done", "raised")
               ELSE Step(r, req[r], "done", "confirm_stake")
    /\ UNCHANGED <<now, lastOp, envVars, wallet, freeTao, history, addCalls, loads,
                   okStakes, removeStakes,
                   started>>

\* ParsedStake, op != "add": _handle_stake_action
HandleStakeRemove(r, p, u, amount, netuid) ==
    LET n == NetuidOrDefault(netuid)
        rec == [Called(p, u, "stake_remove") EXCEPT
                    !.classified = TRUE, !.amount = amount, !.netuid = n,
                    !.asked = netuid]
    IN  /\ Arrives(r)
        /\ IF IsAll(amount)
           THEN /\ Save(UserKeyOf(p, u), UnstakeAllToken(n), UnstakeAllTtl,
                     Intent("remove", amount, netuid))
                /\ Step(r, rec, "done", "confirm_unstake_all")
           ELSE /\ Save(UserKeyOf(p, u), UnstakeToken(amount, n), UnstakeTtl,
                     Intent("remove", amount, netuid))
                /\ Step(r, rec, "done", "confirm_unstake")
        /\ UNCHANGED <<now, lastOp, envVars, wallet, freeTao, history, addCalls, loads,
                       okStakes, removeStakes>>

\* parse_message returns anything but a ParsedStake
HandleUnknown(r, p, u) ==
    /\ Arrives(r)
    /\ Step(r, [Called(p, u, "unknown") EXCEPT !.classified = TRUE],
            "done", "unknown_command")
    /\ UNCHANGED <<now, storeVars, lastOp, envVars, wallet, freeTao, history, addCalls,
                   loads, okStakes, removeStakes>>

\* ------------------------------------------------------------------------
\* _stake
\* ------------------------------------------------------------------------
\* get_balance reads the chain
StakeBalance(r) ==
    /\ req[r].pc = "stake_get_balance"
    /\ Step(r, [req[r] EXCEPT !.bal = freeTao], "stake_check", "")
    /\ UNCHANGED <<now, storeVars, lastOp, envVars, wallet, freeTao, history, addCalls,
                   loads, okStakes, removeStakes,
                   started>>

\* the task resumes with bal: the balance check, then add_stake is invoked
StakeCheck(r) ==
    /\ req[r].pc = "stake_check"
    /\ IF Insufficient(req[r].bal, req[r].amount.v)
       THEN /\ Step(r, req[r], "done", "insufficient")
            /\ UNCHANGED addCalls
       ELSE /\ Step(r, [req[r] EXCEPT !.calls = @ + 1], "stake_add_stake", "")
            /\ addCalls' = [addCalls EXCEPT ![req[r].pendId] = @ + 1]
    /\ UNCHANGED <<now, storeVars, lastOp, envVars, wallet, freeTao, history, loads,
                   okStakes, removeStakes,
                   started>>

\* add_stake completes on the chain with `result` and the task runs to its
\* return
StakeReply(r, result) ==
    /\ req[r].pc = "stake_add_stake"
    /\ result.ok => 0 <= result.tao_amount /\ result.tao_amount <= freeTao
    /\ freeTao' = IF result.ok THEN freeTao - result.tao_amount ELSE freeTao
    /\ okStakes' = IF result.ok THEN okStakes + 1 ELSE okStakes
    /\ history' = HistoryAfter(history, result, req[r].netuid.v)
    /\ IF result.ok
       THEN Step(r, req[r], "done", "stake_confirmed")
       ELSE Step(r, req[r], "done", "stake_failed")
    /\ UNCHANGED <<now, storeVars, lastOp, envVars, wallet, addCalls, loads,
                   removeStakes,
                   started>>

\* ------------------------------------------------------------------------
\* The clock
\* ------------------------------------------------------------------------
Tick ==
    /\ now + TickStep <= MaxTime
    /\ now' = now + TickStep
    /\ out' = NoOut
    /\ UNCHANGED <<storeVars, lastOp, envVars, wallet, freeTao, history, req, addCalls,
                   loads, okStakes, removeStakes,
                   started>>

Next ==
    \/ \E r \in Reqs, p \in Platforms, u \in UserIds :
        \/ HandleHelp(r, p, u)
        \/ HandleBalance(r, p, u)
        \/ HandleConfirm(r, p, u)
        \/ HandleUnknown(r, p, u)
        \/ \E a \in AddAmounts, n \in Netuids : HandleStakeAdd(r, p, u, a, n)
        \/ \E a \in RemoveAmounts, n \in Netuids :
               HandleStakeRemove(r, p, u, a, n)
    \/ \E r \in Reqs :
        \/ BalanceReply(r)
        \/ QuoteBalance(r)
        \/ \E rate \in Rates : QuoteRate(r, rate)
        \/ StakeBalance(r)
        \/ StakeCheck(r)
        \/ \E result \in StakeResults(req[r].amount.v) : StakeReply(r, result)
    \/ Tick

Spec == Init /\ [][Next]_vars

\* ------------------------------------------------------------------------
\* The engine with the order of a user's stake intents followed
\* ------------------------------------------------------------------------
\* The tasks once user u of platform p has issued a stake intent that will
\* save `action`, or a confirm (action none): what the user's suspended
\* intent handlers have as the newer intent.
Marked(p, u, action) ==
    [q \in Reqs |->
        IF /\ req[q].pc \in {"quote_get_balance", "quote_get_rate"}
           /\ req[q].platform = p
           /\ req[q].user = u
        THEN [req[q] EXCEPT !.newer = action]
        ELSE req[q]]

\* The same handlers, marking the tasks.
IssueStakeAdd(r, p, u, amount, netuid) ==
    StakeAddFrom(Marked(p, u, StakeToken(amount, NetuidOrDefault(netuid))),
                 r, p, u, amount, netuid)
IssueConfirm(r, p, u) == ConfirmFrom(Marked(p, u, NoAction), r, p, u)

NextOrder ==
    \/ \E r \in Reqs, p \in Platforms, u \in UserIds :
        \/ HandleHelp(r, p, u)
        \/ HandleBalance(r, p, u)
        \/ IssueConfirm(r, p, u)
        \/ HandleUnknown(r, p, u)
        \/ \E a \in AddAmounts, n \in Netuids : IssueStakeAdd(r, p, u, a, n)
        \/ \E a \in RemoveAmounts, n \in Netuids :
               HandleStakeRemove(r, p, u, a, n)
    \/ \E r \in Reqs :
        \/ BalanceReply(r)
        \/ QuoteBalance(r)
        \/ \E rate \in Rates : QuoteRate(r, rate)
        \/ StakeBalance(r)
        \/ StakeCheck(r)
        \/ \E result \in StakeResults(req[r].amount.v) : StakeReply(r, result)
    \/ Tick

SpecOrder == Init /\ [][NextOrder]_vars

\* ------------------------------------------------------------------------
\* The engine with one task at a time, for staking intents and confirms:
\* two platforms, every kind of intent parse_message can return, a default
\* netuid configured or not
\* ------------------------------------------------------------------------
WidePlatforms == {<<"tg">>, <<"dc">>}
WideKeys == {UserKeyOf(p, u) : p \in WidePlatforms, u \in UserIds}

\* ParsedStake.amount: a number or "all"; ParsedStake.netuid: an integer or
\* None
WideAddAmounts == {Num(10), AllTok}
WideRemoveAmounts == {Num(0), Num(5), AllTok}
WideNetuids == {Num(0), Num(3), NoneVal}

\* cfg.defaults.netuid: Optional[int]
ConfiguredNetuids == {Num(1), NoneVal}

InitSolo ==
    /\ now = 0
    /\ store = {}
    /\ nextId = 1
    /\ wallet = NoWallet
    /\ freeTao = InitialTao
    /\ history = <<>>
    /\ req = [r \in Reqs |-> IdleReq]
    /\ out = NoOut
    /\ saved = [k \in WideKeys |-> NoSave]
    /\ lastOp = NoLastOp
    /\ returned = [i \in Ids |-> 0]
    /\ addCalls = [i \in Ids |-> 0]
    /\ loads = 0
    /\ okStakes = 0
    /\ removeStakes = 0
    /\ started = 0
    /\ cfgNetuid \in ConfiguredNetuids
    /\ text = <<>>
    /\ routed = "none"

NextSolo ==
    \/ \E p \in WidePlatforms, u \in UserIds :
        /\ started < MaxSoloTasks
        /\ \/ HandleConfirm(1, p, u)
           \/ \E a \in WideAddAmounts, n \in WideNetuids :
                  HandleStakeAdd(1, p, u, a, n)
           \/ \E a \in WideRemoveAmounts, n \in WideNetuids :
                  HandleStakeRemove(1, p, u, a, n)
    \/ QuoteBalance(1)
    \/ \E rate \in Rates : QuoteRate(1, rate)
    \/ StakeBalance(1)
    \/ StakeCheck(1)
    \/ \E result \in StakeResults(req[1].amount.v) : StakeReply(1, result)
    \/ Tick

SpecSolo == InitSolo /\ [][NextSolo]_vars

\* ------------------------------------------------------------------------
\* _normalize_cmd and the routing of handle_text_async
\* ------------------------------------------------------------------------
\* A text is the sequence of its characters; a run of word characters that
\* is never split is written as one element ("help" for h,e,l,p).
WordChunks == {"help", "HELP", "start", "balance", "portfolio", "confirm",
               "stake"}
Whitespace == {" "}
TextChars == WordChunks \cup Whitespace \cup {"?", "!", "/"}

\* str.lower()
LowerChar(c) == IF c = "HELP" THEN "help" ELSE c
RECURSIVE Lower(_)
Lower(t) == IF t = <<>> THEN <<>> ELSE <<LowerChar(Head(t))>> \o Lower(Tail(t))

\* str.strip()
RECURSIVE StripLeft(_)
StripLeft(t) ==
    IF t # <<>> /\ Head(t) \in Whitespace THEN StripLeft(Tail(t)) ELSE t
RECURSIVE StripRight(_)
StripRight(t) ==
    IF t # <<>> /\ t[Len(t)] \in Whitespace
    THEN StripRight(SubSeq(t, 1, Len(t) - 1))
    ELSE t
Strip(t) == StripRight(StripLeft(t))

\* t.split()[0] of a stripped, non-empty t
RECURSIVE FirstToken(_)
FirstToken(t) ==
    IF t = <<>> \/ Head(t) \in Whitespace THEN <<>>
    ELSE <<Head(t)>> \o FirstToken(Tail(t))

\* _TRAILING_JUNK_RE = re.compile(r"[^\w/]+$"): a character that is neither
\* a word character nor "/"
IsJunk(c) == c \notin WordChunks /\ c # "/"

\* _TRAILING_JUNK_RE.sub("", token)
RECURSIVE StripTrailingJunk(_)
StripTrailingJunk(tok) ==
    IF tok # <<>> /\ IsJunk(tok[Len(tok)])
    THEN StripTrailingJunk(SubSeq(tok, 1, Len(tok) - 1))
    ELSE tok

\* if token.startswith("/"): token = token[1:]
StripSlash(tok) == IF tok # <<>> /\ Head(tok) = "/" THEN Tail(tok) ELSE tok

NormalizeCmd(raw_text) ==
    LET t == Strip(raw_text)
    IN  IF t = <<>> THEN <<>>
        ELSE Lower(StripSlash(StripTrailingJunk(Strip(FirstToken(t)))))

\* The branch of handle_text_async a command takes.
RouteOf(cmd) ==
    IF cmd \in {<<"help">>, <<"start">>, <<"?">>} THEN "help"
    ELSE IF cmd \in {<<"balance">>, <<"portfolio">>} THEN "balance"
    ELSE IF cmd = <<"confirm">> THEN "confirm"
    ELSE "parse_message"

\* One more character of the text is typed.
TypeText(c) ==
    /\ routed = "none"
    /\ Len(text) < MaxText
    /\ text' = Append(text, c)
    /\ UNCHANGED <<routed, cfgNetuid, now, storeVars, lastOp, engineVars>>

\* handle_text_async is called with the text, up to the branch it takes.
RouteText ==
    /\ routed = "none"
    /\ routed' = RouteOf(NormalizeCmd(text))
    /\ UNCHANGED <<text, cfgNetuid, now, storeVars, lastOp, engineVars>>

NextRoute ==
    \/ \E c \in TextChars : TypeText(c)
    \/ RouteText

SpecRoute == Init /\ [][NextRoute]_vars

\* ------------------------------------------------------------------------
\* Properties of the store driven alone (SpecStore)
\* ------------------------------------------------------------------------
\* C2: for every ttl and key, a pop at time P of an action saved at T with
\* ttl t (not overwritten or popped since) returns that action when
\* T <= P < T + t and returns none when P >= T + t.
C2_TtlWindow ==
    (lastOp.op = "pop" /\ lastOp.prior # NoSave) =>
        LET T == lastOp.prior.at
            t == lastOp.prior.ttl
            P == lastOp.at
        IN  /\ (T <= P /\ P < T + t) =>
                (lastOp.result = lastOp.prior.action /\ lastOp.id = lastOp.prior.id)
            /\ P >= T + t => lastOp.result = NoAction

\* A pop returned the action strictly inside its window, and the action had
\* been saved with the largest ttl.
C2_Witness ==
    /\ lastOp.op = "pop"
    /\ lastOp.result # NoAction
    /\ lastOp.at > lastOp.prior.at
    /\ lastOp.prior.ttl = MaxTtl

\* C3: pop leaves the slot of its key empty whether the entry was live,
\* expired or absent; no saved action is returned more than once, and no
\* entry that a pop has consumed (returned, or found expired) is in the
\* store afterwards.
C3_PopEmptiesSlot ==
    /\ lastOp.op = "pop" => ~\E e \in store : e.key = lastOp.key
    /\ \A i \in Ids : returned[i] <= 1
    /\ \A e \in store : returned[e.id] = 0
    /\ lastOp.op = "pop" => ~\E e \in store : e.id = lastOp.id

\* A pop found an expired entry: it returned none and the store is empty.
C3_Witness ==
    /\ lastOp.op = "pop"
    /\ lastOp.id # 0
    /\ lastOp.result = NoAction
    /\ store = {}

\* C4: the store holds at most one entry per key; the entry of a key is
\* the one saved last, with expires_at = time of that save + ttl, and a pop
\* returns nothing but the action saved last.
C4_SaveReplaces ==
    /\ \A e1, e2 \in store : e1.key = e2.key => e1 = e2
    /\ \A k \in Keys : saved[k] # NoSave =>
          {e \in store : e.key = k} =
              {[key |-> k, action |-> saved[k].action,
                expires_at |-> saved[k].at + saved[k].ttl, id |-> saved[k].id]}
    /\ (lastOp.op = "pop" /\ lastOp.result # NoAction) =>
          (lastOp.prior # NoSave /\ lastOp.result = lastOp.prior.action
             /\ lastOp.id = lastOp.prior.id)

\* A save replaced a different action that was still live on the same key.
C4_Witness ==
    /\ lastOp.op = "save"
    /\ lastOp.prior # NoSave
    /\ lastOp.at < lastOp.prior.at + lastOp.prior.ttl
    /\ saved[lastOp.key].action # lastOp.prior.action
    /\ saved[lastOp.key].id = lastOp.id

\* ------------------------------------------------------------------------
\* Properties of the engine (Spec)
\* ------------------------------------------------------------------------
\* This step is handle_text_async called with a text of command cmd by
\* user u of platform p: the task it starts has returned, or is suspended.
CalledWith(cmd, p, u) ==
    /\ started' = started + 1
    /\ \/ out'.cmd = cmd /\ out'.platform = p /\ out'.user = u
       \/ \E r \in Reqs : /\ req[r].pc = "idle"
                          /\ req'[r].pc # "idle"
                          /\ req'[r].cmd = cmd
                          /\ req'[r].platform = p
                          /\ req'[r].user = u

\* This step is a step of a task answering a text of command cmd by user u
\* of platform p (its first segment or a later one).
StepOf(cmd, p, u) ==
    \/ out'.cmd = cmd /\ out'.platform = p /\ out'.user = u
    \/ \E r \in Reqs : /\ req'[r].pc # req[r].pc
                       /\ req'[r].cmd = cmd
                       /\ req'[r].platform = p
                       /\ req'[r].user = u

\* The user key holds a live pending action: now < expires_at.
Live(k) == \E e \in store : e.key = k /\ now < e.expires_at

\* C1: whatever the interleaving of confirms, each pending action is
\* returned by at most one pop and add_stake is invoked at most once for
\* it; a confirm called when the action of its key has been popped (and
\* none saved since) returns "no pending action" and invokes nothing.
C1_ConfirmOnce ==
    [][/\ \A i \in Ids : returned'[i] <= 1 /\ addCalls'[i] <= 1
       /\ \A p \in Platforms, u \in UserIds :
            (CalledWith("confirm", p, u) /\ saved[UserKeyOf(p, u)] = NoSave) =>
                (out'.resp = "no_pending" /\ addCalls' = addCalls)]_vars

\* A confirm has popped the user's stake action and awaits add_stake while
\* a second confirm of the same user returns "no pending action".
C1_Witness ==
    \E r \in Reqs :
        /\ req[r].pc = "stake_add_stake"
        /\ addCalls[req[r].pendId] = 1
        /\ returned[req[r].pendId] = 1
        /\ out.cmd = "confirm"
        /\ out.resp = "no_pending"
        /\ out.platform = req[r].platform
        /\ out.user = req[r].user

\* C5: a confirm called while its user has no live pending action returns
\* "no pending action" in that step, invokes neither add_stake nor the
\* remove-stake operation, and leaves the history unchanged.
C5_ConfirmNothingLive ==
    [][\A p \in Platforms, u \in UserIds :
        (CalledWith("confirm", p, u) /\ ~Live(UserKeyOf(p, u))) =>
            /\ out'.resp = "no_pending"
            /\ out'.calls = 0
            /\ req' = req
            /\ addCalls' = addCalls
            /\ removeStakes' = removeStakes
            /\ okStakes' = okStakes
            /\ history' = history]_vars

\* A confirm returned "no pending action" for an action that had expired:
\* the one action ever saved left the store without being returned.
C5_Witness ==
    /\ out.cmd = "confirm"
    /\ out.resp = "no_pending"
    /\ now >= StakeTtl
    /\ nextId = 2
    /\ returned[1] = 0
    /\ store = {}

\* C6: when _stake resumes with a re-fetched balance below the amount, the
\* task returns "insufficient balance" in that step, add_stake is not
\* invoked and the history keeps its length.
C6_InsufficientBalance ==
    [][\A r \in Reqs :
        (/\ req[r].pc = "stake_check"
         /\ req[r].bal < req[r].amount.v
         /\ req'[r] # req[r]) =>
            /\ req'[r] = IdleReq
            /\ out'.resp = "insufficient"
            /\ out'.calls = 0
            /\ addCalls' = addCalls
            /\ okStakes' = okStakes
            /\ Len(history') = Len(history)]_vars

\* A stake confirmation ended in "insufficient balance" although the
\* balance sufficed when the action was quoted: the wallet was spent since.
C6_Witness ==
    /\ out.cmd = "confirm"
    /\ out.resp = "insufficient"
    /\ out.pending = <<"stake_confirm", "15", "3">>
    /\ okStakes = 1

\* C7: the history is append-only; a step appends exactly one stake record
\* when an add_stake invocation completes with ok and nothing otherwise, so
\* the number of stake records is the number of ok completions.
C7_HistoryAppendOnly ==
    [][/\ Len(history') >= Len(history)
       /\ SubSeq(history', 1, Len(history)) = history
       /\ okStakes' = okStakes => history' = history
       /\ okStakes' # okStakes =>
            (okStakes' = okStakes + 1 /\ Len(history') = Len(history) + 1)
       /\ Len(history') = okStakes'
       /\ \A i \in 1..Len(history') : history'[i].type = "stake"]_vars

\* A second add_stake invocation has completed with ok and the second
\* record is written, after the first.
C7_Witness ==
    /\ okStakes = 2
    /\ Len(history) = 2
    /\ out.resp = "stake_confirmed"
    /\ history[1].tao_spent # history[2].tao_spent

\* C8: no step of a task handling a staking intent (add or remove) changes
\* the history or invokes add_stake or the remove-stake operation; of the
\* store it changes nothing but the slot of the issuing user.
C8_IntentFrame ==
    [][\A p \in Platforms, u \in UserIds :
        (StepOf("stake_add", p, u) \/ StepOf("stake_remove", p, u)) =>
            /\ history' = history
            /\ addCalls' = addCalls
            /\ okStakes' = okStakes
            /\ removeStakes' = removeStakes
            /\ freeTao' = freeTao
            /\ {e \in store' : e.key # UserKeyOf(p, u)} =
                   {e \in store : e.key # UserKeyOf(p, u)}]_vars

\* A stake intent has saved its action while the other user holds one too.
C8_Witness ==
    /\ out.cmd = "stake_add"
    /\ out.resp = "confirm_stake"
    /\ Cardinality(store) = 2
    /\ \E e \in store : e.key = UserKeyOf(out.platform, out.user) /\ e.id = 2

\* C9: a task of a user absent from the allow-list (u2) returns
\* "unauthorized" whatever the text, without calling parse_message and
\* without writing or popping the store.
C9_UnauthorizedBlocked ==
    /\ \A r \in Reqs : req[r].pc # "idle" => req[r].user \in AllowedUsers
    /\ (out # NoOut /\ out.user \notin AllowedUsers) =>
          (out.resp = "unauthorized" /\ ~out.classified /\ out.pendId = 0)
    /\ \A e \in store : \E p \in Platforms, u \in AllowedUsers :
                            e.key = UserKeyOf(p, u)

\* C10: a confirm that popped a live unstake_confirm or unstake_all_confirm
\* action (and did not fail loading the wallet) has invoked the
\* remove-stake operation.
C10_UnstakeExecutes ==
    (/\ out.cmd = "confirm"
     /\ out.pending # NoAction
     /\ out.pending[1] \in {"unstake_confirm", "unstake_all_confirm"}
     /\ out.resp # "raised") =>
        removeStakes >= 1

\* C11: the record appended when add_stake completes with ok has type
\* "stake", the netuid of the confirmed action, and tao_spent, alpha_bought
\* and rate equal to the values of the add_stake result (the result is the
\* one that took tao_spent from the free balance), whatever the amount
\* requested.
C11_RecordFromResult ==
    [][\A r \in Reqs :
        (/\ req[r].pc = "stake_add_stake"
         /\ req'[r] # req[r]
         /\ okStakes' = okStakes + 1) =>
            /\ Len(history') = Len(history) + 1
            /\ LET rec == history'[Len(history')]
               IN  /\ rec.type = "stake"
                   /\ rec.netuid = req[r].netuid.v
                   /\ Num(rec.netuid) = IntOf(req[r].pending[3])
                   /\ \E result \in StakeResults(req[r].amount.v) :
                        /\ result.ok
                        /\ result.tao_amount = freeTao - freeTao'
                        /\ rec.tao_spent = result.tao_amount
                        /\ rec.alpha_bought = result.alpha_amount
                        /\ rec.rate = result.rate]_vars

\* A stake was confirmed with slippage: the record carries the spent amount
\* and the rate of the result, which differ from the amount requested and
\* the rate quoted.
C11_Witness ==
    /\ out.cmd = "confirm"
    /\ out.resp = "stake_confirmed"
    /\ Len(history) >= 1
    /\ Num(history[Len(history)].tao_spent) # FloatOf(out.pending[2])
    /\ history[Len(history)].rate = 3
    /\ history[Len(history)].netuid = 3

\* C12: once a load has succeeded the cached handle never changes and
\* load_wallet is never invoked again, whatever tasks use the wallet for the
\* first time concurrently; load_wallet is invoked only while no handle is
\* cached, one invocation per step, so the handle is set at most once.
C12_WalletLoadedOnce ==
    [][/\ wallet # NoWallet => (wallet' = wallet /\ loads' = loads)
       /\ loads' # loads => (wallet = NoWallet /\ loads' = loads + 1)
       /\ wallet' # wallet => (wallet = NoWallet /\ loads' = loads + 1)]_vars

\* Two tasks that both needed the wallet are suspended after _get_wallet
\* and load_wallet has been invoked once.
C12_Witness ==
    /\ wallet # NoWallet
    /\ loads = 1
    /\ \A r \in Reqs : req[r].pc \in {"quote_get_balance", "balance_get_balance",
                                     "stake_get_balance"}
    /\ \E r \in Reqs : req[r].cmd = "balance"

\* The sum of tao_spent over the stake records of h.
RECURSIVE TotalCost(_)
TotalCost(h) ==
    IF h = <<>> THEN 0
    ELSE (IF Head(h).type = "stake" THEN Head(h).tao_spent ELSE 0)
            + TotalCost(Tail(h))

\* The sum of tao_received over the unstake records of h.
RECURSIVE Realized(_)
Realized(h) ==
    IF h = <<>> THEN 0
    ELSE (IF Head(h).type = "unstake" THEN Head(h).tao_received ELSE 0)
            + Realized(Tail(h))

\* C13: a portfolio response reports, for some current value of the stake,
\* unrealized = value - total_cost, realized, and, when total_cost > 0,
\* roi = 100 * (unrealized + realized) / total_cost, folded from the
\* history.
C13_PortfolioFolds ==
    out.resp = "portfolio" =>
        \E value \in 0..(2 * MaxNum) :
            /\ <<"unrealized", value - TotalCost(history)>> \in out.report
            /\ <<"realized", Realized(history)>> \in out.report
            /\ TotalCost(history) > 0 =>
                 <<"roi", (100 * (value - TotalCost(history) + Realized(history)))
                              \div TotalCost(history)>> \in out.report

\* ------------------------------------------------------------------------
\* Properties of the routing (SpecRoute)
\* ------------------------------------------------------------------------
\* C14: a text whose normalized first token is help, start or ? is routed
\* to help, balance or portfolio to the balance report, confirm to the
\* confirmation, and none of them to parse_message; in particular the
\* texts "?" and "/?" are routed to help.
C14_BuiltinsRouted ==
    routed # "none" =>
        /\ NormalizeCmd(text) \in {<<"help">>, <<"start">>, <<"?">>} =>
              routed = "help"
        /\ NormalizeCmd(text) \in {<<"balance">>, <<"portfolio">>} =>
              routed = "balance"
        /\ NormalizeCmd(text) = <<"confirm">> => routed = "confirm"
        /\ text \in {<<"?">>, <<"/", "?">>} => routed = "help"

\* Another task than r is suspended in _confirm_stake for the same user.
OtherIntent(r, p, u) ==
    \E q \in Reqs : /\ q # r
                    /\ req[q].pc \in {"quote_get_balance", "quote_get_rate"}
                    /\ req[q].platform = p
                    /\ req[q].user = u

\* C15: when a handler of a user's stake intent saves its action and no
\* other handler of the user's intents is left suspended, so that the next
\* confirm pops what is saved now, the saved action is that of the intent
\* the user issued last, however the handlers interleaved at their awaits.
C15_LastIntentWins ==
    [][\A r \in Reqs :
        (/\ req[r].pc = "quote_get_rate"
         /\ req'[r] = IdleReq
         /\ out'.resp = "confirm_stake"
         /\ ~OtherIntent(r, req[r].platform, req[r].user)
         /\ req[r].newer # NoAction) =>
            saved'[UserKeyOf(req[r].platform, req[r].user)].action
                = req[r].newer]_vars

\* ------------------------------------------------------------------------
\* Properties of the engine with one task at a time (SpecSolo)
\* ------------------------------------------------------------------------
\* This step is a step of a task of user u of platform p.
StepBy(p, u) ==
    \/ out' # NoOut /\ out'.platform = p /\ out'.user = u
    \/ \E r \in Reqs : /\ req'[r].pc # req[r].pc
                       /\ req'[r].platform = p
                       /\ req'[r].user = u

C18_BalanceCoversStake ==
    [][\A r \in Reqs :
        (req[r].pc = "stake_check" /\ req'[r].pc = "stake_add_stake") =>
            freeTao >= req[r].amount.v]_vars

\* How a confirm that popped an action ends without executing it.
FailedResponses == {"insufficient", "stake_failed", "unknown_action", "raised"}

\* C19: a confirm that finds a live action empties the slot of its user in
\* the step that pops it, before anything is executed; no later step of a
\* confirm task writes the store, so when the task ends in insufficient
\* balance, external failure, unknown action or a wallet-load error the
\* action it popped is in no slot; and a confirm called while the slot of
\* its user is empty returns "no pending action" without invoking
\* add_stake.
C19_ConfirmConsumes ==
    [][\A p \in Platforms, u \in UserIds :
        LET k == UserKeyOf(p, u)
        IN  /\ (CalledWith("confirm", p, u) /\ Live(k)) =>
                /\ ~\E e \in store' : e.key = k
                /\ \A e \in store : e.key = k =>
                     (returned'[e.id] = 1 /\ out'.resp # "no_pending")
            /\ (StepOf("confirm", p, u) /\ ~CalledWith("confirm", p, u)) =>
                store' = store
            /\ (/\ StepOf("confirm", p, u)
                /\ out'.cmd = "confirm"
                /\ out'.resp \in FailedResponses) =>
                /\ out'.pending # NoAction
                /\ ~\E e \in store' : e.id = out'.pendId
                /\ okStakes' = okStakes
                /\ history' = history
            /\ (/\ CalledWith("confirm", p, u)
                /\ ~\E e \in store : e.key = k) =>
                /\ out'.resp = "no_pending"
                /\ out'.calls = 0
                /\ addCalls' = addCalls]_vars

\* A confirm popped a stake action, add_stake was invoked for it and
\* failed: the slot of the user is empty and nothing was recorded.
C19_Witness ==
    /\ out.cmd = "confirm"
    /\ out.resp = "stake_failed"
    /\ out.pending # NoAction
    /\ returned[out.pendId] = 1
    /\ addCalls[out.pendId] = 1
    /\ ~\E e \in store : e.key = UserKeyOf(out.platform, out.user)
    /\ history = <<>>

\* ------------------------------------------------------------------------
\* The token of a pending stake (SpecSolo)
\* ------------------------------------------------------------------------
\* C20: when a confirm pops a live action saved by an add intent and the
\* wallet loads, decoding the token does not raise and the task goes on to
\* _stake with the amount of the intent and with its netuid (the
\* configured default when the intent has none), for every amount and
\* netuid an intent can carry, with and without a configured default.
C20_TokenRoundTrips ==
    [][\A p \in WidePlatforms, u \in UserIds :
        LET k == UserKeyOf(p, u)
            i == saved[k].intent
        IN  (/\ CalledWith("confirm", p, u)
             /\ Live(k)
             /\ i.op = "add"
             /\ wallet' # NoWallet) =>
                /\ out'.resp # "raised"
                /\ req'[1].pc = "stake_get_balance"
                /\ req'[1].amount = i.amount
                /\ req'[1].netuid = IF i.netuid = NoneVal
                                    THEN cfgNetuid ELSE i.netuid]_vars

====
